---- MODULE Spec2Model ----
(***************************************************************************)
(* Span stock screener: the screening checks, the signal aggregation and   *)
(* the response cache, as documented by generate_algo_doc.py.              *)
(*                                                                         *)
(* Percentages, ratios and prices are fixed-point integers scaled by 100   *)
(* (47.33% is 4733, a cash/debt ratio of 0.61 is 61, $264.35 is 26435).    *)
(* An optional value is a sequence: <<>> is undefined, <<v>> is defined.   *)
(***************************************************************************)
EXTENDS Integers, Sequences, FiniteSets, TLC

VARIABLES
    pc,         \* position of the recommendation pipeline
    metrics,    \* the derived metrics (plus price, sma50, rsi) of the request
    checks,     \* the five check slots, in order, once the checks have run
    rec,        \* the recommendation: signal, confidence and the counts
    now,        \* cache clock, in minutes
    cache,      \* symbol -> per upstream call, <<>> or <<expiry>> of its response
    fetches,    \* the upstream fetches in flight
    req,        \* request -> its state in the cache protocol
    nextId      \* id of the next upstream fetch

vars == <<pc, metrics, checks, rec, now, cache, fetches, req, nextId>>
pipeVars == <<pc, metrics, checks, rec>>
cacheVars == <<now, cache, fetches, req, nextId>>

----------------------------------------------------------------------------
(* Optional values *)

Undefined == <<>>
Some(v) == <<v>>
Defined(m) == m # <<>>
Val(m) == m[1]

Max(a, b) == IF a >= b THEN a ELSE b

----------------------------------------------------------------------------
(* Thresholds of the screening checks, scaled by 100 *)

GM_GREEN == 5000        \* Gross Margin >= 50%
GM_YELLOW == 3000       \* GM 30-50% ; Gross Margin <= 30%
PM_YELLOW == 1000       \* Profit Margin > 10%
PS_GREEN == 1000        \* P/S <= 10
PS_RED == 2000          \* P/S >= 20
RULE_OF_30 == 3000      \* Growth+FCF% > 30%
GROWTH_GREEN == 2000    \* YoY Growth >= 20%
GROWTH_YELLOW == 1000   \* Growth 10-20% ; Growth < 10%
CD_GREEN == 100         \* Cash/Debt >= 1.0
CD_YELLOW == 50         \* Cash/Debt 0.5-1.0 ; Cash/Debt <= 0.5
RSI_LOW == 3000         \* RSI 30-70 ; RSI < 30
RSI_HIGH == 7000        \* RSI 30-70 ; RSI > 70
NUM_CHECKS == 5         \* the 5 screening checks
NUM_CALLS == 5          \* the 5 upstream calls
TTL == 5                \* cache time-to-live, minutes

Lights == {"GREEN", "YELLOW", "RED"}
ABSENT == "ABSENT"      \* the check was skipped: a metric it needs is undefined
NOMATCH == "NOMATCH"    \* the check ran and no row of its table matched

----------------------------------------------------------------------------
(* Rule tables.  A table is the sequence of its rows, in the order the     *)
(* documentation lists them; a row is its light and whether its condition  *)
(* holds.  A band "a-b" holds its lower bound and stops short of b, where  *)
(* the table's next band (>= b) starts; the RSI band 30-70 holds both ends *)
(* (its complements are documented as RSI > 70 and RSI < 30).              *)

Row(light, cond) == [light |-> light, cond |-> cond]

\* Faulty variant: the last matching row wins.
LastMatch(rows) ==
    IF \E i \in 1..Len(rows) : rows[i].cond
    THEN rows[CHOOSE i \in 1..Len(rows) :
                /\ rows[i].cond
                /\ \A j \in (i+1)..Len(rows) : ~rows[j].cond].light
    ELSE NOMATCH

\* Rules are evaluated top to bottom and the first row that matches wins.
FirstMatch(rows) ==
    IF \E i \in 1..Len(rows) : rows[i].cond
    THEN rows[CHOOSE i \in 1..Len(rows) :
                /\ rows[i].cond
                /\ \A j \in 1..(i-1) : ~rows[j].cond].light
    ELSE NOMATCH

\* Faulty variant: the GREEN row also demands the profit margin.
Check1RowsStrict(gm, pm) ==
    << Row("GREEN",  gm >= GM_GREEN /\ pm > PM_YELLOW),
       Row("YELLOW", gm >= GM_YELLOW /\ gm < GM_GREEN /\ pm > PM_YELLOW),
       Row("RED",    gm <= GM_YELLOW) >>

\* Check 1: Margins
Check1Rows(gm, pm) ==
    << Row("GREEN",  gm >= GM_GREEN),
       Row("YELLOW", gm >= GM_YELLOW /\ gm < GM_GREEN /\ pm > PM_YELLOW),
       Row("RED",    gm <= GM_YELLOW) >>

\* Faulty variant: the P/S 10-20 bands include 20.
Check2RowsWide(ps, growth, fcf) ==
    << Row("GREEN",  ps <= PS_GREEN),
       Row("GREEN",  ps >= PS_GREEN /\ ps <= PS_RED /\ growth + fcf > RULE_OF_30),
       Row("YELLOW", ps >= PS_GREEN /\ ps <= PS_RED /\ growth + fcf <= RULE_OF_30),
       Row("RED",    ps >= PS_RED) >>

\* Check 2: Price/Sales Ratio
Check2Rows(ps, growth, fcf) ==
    << Row("GREEN",  ps <= PS_GREEN),
       Row("GREEN",  ps >= PS_GREEN /\ ps < PS_RED /\ growth + fcf > RULE_OF_30),
       Row("YELLOW", ps >= PS_GREEN /\ ps < PS_RED /\ growth + fcf <= RULE_OF_30),
       Row("RED",    ps >= PS_RED) >>

\* Check 3: Revenue Growth (Year-over-Year)
Check3Rows(growth) ==
    << Row("GREEN",  growth >= GROWTH_GREEN),
       Row("YELLOW", growth >= GROWTH_YELLOW /\ growth < GROWTH_GREEN),
       Row("RED",    growth < GROWTH_YELLOW) >>

\* Check 4: Cash/Debt Ratio
Check4Rows(ratio) ==
    << Row("GREEN",  ratio >= CD_GREEN),
       Row("YELLOW", ratio >= CD_YELLOW /\ ratio < CD_GREEN),
       Row("RED",    ratio <= CD_YELLOW) >>

\* Check 5: Technicals (SMA50 + RSI14)
Check5Rows(price, sma50, rsi) ==
    << Row("GREEN",  price > sma50 /\ rsi >= RSI_LOW /\ rsi <= RSI_HIGH),
       Row("YELLOW", price > sma50 /\ rsi > RSI_HIGH),
       Row("YELLOW", price < sma50 /\ rsi >= RSI_LOW),
       Row("RED",    price < sma50 /\ rsi < RSI_LOW) >>

----------------------------------------------------------------------------
(* The five checks.  "If the data for a check is unavailable, the check is *)
(* skipped entirely."                                                      *)

Check1(m) ==
    IF Defined(m.gm) /\ Defined(m.pm)
    THEN FirstMatch(Check1Rows(Val(m.gm), Val(m.pm)))
    ELSE ABSENT

Check2(m) ==
    IF Defined(m.ps) /\ Defined(m.growth) /\ Defined(m.fcf)
    THEN FirstMatch(Check2Rows(Val(m.ps), Val(m.growth), Val(m.fcf)))
    ELSE ABSENT

\* Faulty variant: an undefined growth is treated as 0.
Check3ZeroFill(m) ==
    FirstMatch(Check3Rows(IF Defined(m.growth) THEN Val(m.growth) ELSE 0))

Check3(m) ==
    IF Defined(m.growth)
    THEN FirstMatch(Check3Rows(Val(m.growth)))
    ELSE ABSENT

Check4(m) ==
    IF Defined(m.ratio)
    THEN FirstMatch(Check4Rows(Val(m.ratio)))
    ELSE ABSENT

Check5(m) ==
    IF Defined(m.price) /\ Defined(m.sma50) /\ Defined(m.rsi)
    THEN FirstMatch(Check5Rows(Val(m.price), Val(m.sma50), Val(m.rsi)))
    ELSE ABSENT

RunChecks(m) == << Check1(m), Check2(m), Check3(m), Check4(m), Check5(m) >>

----------------------------------------------------------------------------
(* Signal aggregation *)

Count(results, light) ==
    Cardinality({i \in 1..Len(results) : results[i] = light})

\* total = number of checks that ran (max 5, fewer if data missing): every
\* check that was not skipped counts, whether or not a row matched.
Total(results) ==
    Cardinality({i \in 1..Len(results) : results[i] # ABSENT})

\* Faulty variant: total / 2 as an integer division.
SignalFloor(reds, greens, total) ==
    IF reds >= total \div 2 THEN "SELL"
    ELSE IF greens >= total \div 2 THEN "BUY"
    ELSE "HOLD"

\* if reds >= total / 2 --> SELL ; if greens >= total / 2 --> BUY ;
\* otherwise HOLD.  SELL is evaluated first.  total / 2 is the exact half
\* (2.5 for 5 checks), so n >= total / 2 is 2 * n >= total.
Signal(reds, greens, total) ==
    IF 2 * reds >= total THEN "SELL"
    ELSE IF 2 * greens >= total THEN "BUY"
    ELSE "HOLD"

\* Faulty variant: YELLOW can be the majority.
ConfidenceAnyColour(greens, yellows, reds, total) ==
    LET top == Max(greens, Max(yellows, reds))
        differs == total - top
    IN  IF total = 0 THEN "LOW"
        ELSE IF differs = 0 THEN "HIGH"
        ELSE IF differs = 1 THEN "MEDIUM"
        ELSE "LOW"

\* Faulty variant: MEDIUM allows no differing check.
ConfidenceOffByOne(greens, yellows, reds, total) ==
    LET top == Max(greens, reds)
        differs == total - top
    IN  IF differs = 0 THEN "HIGH"
        ELSE IF differs < 1 THEN "MEDIUM"
        ELSE "LOW"

\* HIGH: all checks are the same color (all GREEN or all RED).
\* MEDIUM: at most 1 check differs from the majority.
\* LOW: mixed results (2+ checks differ) - default.
\* The majority is GREEN or RED, the colours the signal counts: 1 GREEN with
\* 4 YELLOW is documented as LOW (mixed results), 4 GREEN with 1 other as
\* MEDIUM.
Confidence(greens, yellows, reds, total) ==
    LET top == Max(greens, reds)
        differs == total - top
    IN  IF differs = 0 THEN "HIGH"
        ELSE IF differs <= 1 THEN "MEDIUM"
        ELSE "LOW"

Aggregate(results) ==
    LET total == Total(results)
        greens == Count(results, "GREEN")
        yellows == Count(results, "YELLOW")
        reds == Count(results, "RED")
    IN  [ signal |-> Signal(reds, greens, total),
          confidence |-> Confidence(greens, yellows, reds, total),
          total |-> total, greens |-> greens, yellows |-> yellows,
          reds |-> reds, checks |-> results ]

----------------------------------------------------------------------------
(* Inputs of the recommendation pipeline *)

Opt(S) == {Undefined} \cup {Some(v) : v \in S}

GmValues == {2000, 3000, 4733, 5000, 6000}
PmValues == {1000, 2704}
PsValues == {891, 1000, 1500, 2000, 2500}
GrowthValues == {-500, 1000, 1007, 2000}
FcfValues == {500, 3122}
RatioValues == {40, 50, 61, 100}
PriceValues == {26435}
Sma50Values == {26000, 26435, 26674}
RsiValues == {2000, 3000, 4890, 7000, 7500}

MetricsDomain ==
    [ gm : Opt(GmValues), pm : Opt(PmValues), ps : Opt(PsValues),
      growth : Opt(GrowthValues), fcf : Opt(FcfValues),
      ratio : Opt(RatioValues), price : Opt(PriceValues),
      sma50 : Opt(Sma50Values), rsi : Opt(RsiValues) ]

NoRec ==
    [ signal |-> "NONE", confidence |-> "NONE", total |-> 0, greens |-> 0,
      yellows |-> 0, reds |-> 0, checks |-> <<>> ]

----------------------------------------------------------------------------
(* The recommendation pipeline: metrics -> checks -> signal *)

PipeInit ==
    /\ pc = "derived"
    /\ metrics \in MetricsDomain
    /\ checks = <<>>
    /\ rec = NoRec

\* ScreeningEngine: run the five checks on the derived metrics.
Screen ==
    /\ pc = "derived"
    /\ checks' = RunChecks(metrics)
    /\ pc' = "screened"
    /\ UNCHANGED <<metrics, rec>>

\* SignalAggregator: count the lights, determine signal and confidence.
AggregateStep ==
    /\ pc = "screened"
    /\ rec' = Aggregate(checks)
    /\ pc' = "done"
    /\ UNCHANGED <<metrics, checks>>

PipeIdle ==
    /\ pc = "idle"
    /\ metrics = [ gm |-> Undefined, pm |-> Undefined, ps |-> Undefined,
                   growth |-> Undefined, fcf |-> Undefined,
                   ratio |-> Undefined, price |-> Undefined,
                   sma50 |-> Undefined, rsi |-> Undefined ]
    /\ checks = <<>>
    /\ rec = NoRec

----------------------------------------------------------------------------
(* The response cache.  Every API response is cached in memory with a      *)
(* 5-minute TTL: per ticker symbol and upstream call the cache holds the   *)
(* expiry of the cached response; expiry is evaluated on read.  A registry *)
(* of in-flight fetches coalesces concurrent requests for one symbol.      *)

NumRequests == 3        \* concurrent recommendation requests
MaxTime == 5            \* the clock runs from 0 to MaxTime minutes

Symbols == {"AAPL"}
Reqs == 1..NumRequests

IdleReq == [st |-> "idle", sym |-> "", fetch |-> 0, result |-> 0]

Calls == 1..NUM_CALLS

\* The response of call k for symbol s is cached and has not expired.
CachedValid(s, k) == Defined(cache[s][k]) /\ now < Val(cache[s][k])

\* get(symbol): the request is answered from the cache while all five
\* responses are cached and none has expired.
Valid(s) == \A k \in Calls : CachedValid(s, k)

InFlight(s) == \E f \in fetches : f.sym = s

Waiters(f) == {r \in Reqs : req[r].st = "waiting" /\ req[r].fetch = f.id}

CacheInit ==
    /\ now = 0
    /\ cache = [s \in Symbols |-> [k \in Calls |-> Undefined]]
    /\ fetches = {}
    /\ req = [r \in Reqs |-> IdleReq]
    /\ nextId = 1

StartFetch(r, s) ==
    /\ fetches' = fetches \cup {[id |-> nextId, sym |-> s, done |-> 0]}
    /\ nextId' = nextId + 1
    /\ req' = [req EXCEPT ![r] =
                 [st |-> "waiting", sym |-> s, fetch |-> nextId, result |-> 0]]
    /\ UNCHANGED <<now, cache>>

\* Faulty variant: a miss starts a fetch without consulting the registry.
ArriveNoCoalesce(r, s) ==
    /\ req[r].st = "idle"
    /\ IF Valid(s)
       THEN /\ req' = [req EXCEPT ![r] =
                         [st |-> "hit", sym |-> s, fetch |-> 0,
                          result |-> 0]]
            /\ UNCHANGED <<now, cache, fetches, nextId>>
       ELSE StartFetch(r, s)

\* A request for symbol s arrives: a valid entry is returned at once, a
\* fetch in flight for s is joined, and only otherwise a fetch starts.
Arrive(r, s) ==
    /\ req[r].st = "idle"
    /\ IF Valid(s)
       THEN /\ req' = [req EXCEPT ![r] =
                         [st |-> "hit", sym |-> s, fetch |-> 0,
                          result |-> 0]]
            /\ UNCHANGED <<now, cache, fetches, nextId>>
       ELSE IF InFlight(s)
       THEN LET f == CHOOSE g \in fetches : g.sym = s
            IN  /\ req' = [req EXCEPT ![r] =
                             [st |-> "waiting", sym |-> s, fetch |-> f.id,
                              result |-> 0]]
                /\ UNCHANGED <<now, cache, fetches, nextId>>
       ELSE StartFetch(r, s)

\* The next of the 5 sequential calls of fetch f is answered from the cache.
CallCached(f) ==
    /\ f \in fetches
    /\ f.done < NUM_CALLS
    /\ CachedValid(f.sym, f.done + 1)
    /\ fetches' = (fetches \ {f}) \cup {[f EXCEPT !.done = f.done + 1]}
    /\ UNCHANGED <<now, cache, req, nextId>>

\* The next of the 5 sequential upstream calls of fetch f succeeds and its
\* response is cached with the TTL.
CallOk(f) ==
    /\ f \in fetches
    /\ f.done < NUM_CALLS
    /\ ~CachedValid(f.sym, f.done + 1)
    /\ fetches' = (fetches \ {f}) \cup {[f EXCEPT !.done = f.done + 1]}
    /\ cache' = [cache EXCEPT ![f.sym][f.done + 1] = Some(now + TTL)]
    /\ UNCHANGED <<now, req, nextId>>

\* Every waiter of fetch f gets the same outcome.
Deliver(f, st, result) ==
    [r \in Reqs |->
        IF r \in Waiters(f)
        THEN [req[r] EXCEPT !.st = st, !.result = result]
        ELSE req[r]]

\* The next upstream call of fetch f fails (network failure, non-2xx,
\* timeout): the fetch ends and the waiters get the failure.
CallFail(f) ==
    /\ f \in fetches
    /\ f.done < NUM_CALLS
    /\ ~CachedValid(f.sym, f.done + 1)
    /\ fetches' = fetches \ {f}
    /\ req' = Deliver(f, "failed", 0)
    /\ UNCHANGED <<now, cache, nextId>>

\* The request processing is cancelled or times out as a whole.
Cancel(f) ==
    /\ f \in fetches
    /\ fetches' = fetches \ {f}
    /\ req' = Deliver(f, "failed", 0)
    /\ UNCHANGED <<now, cache, nextId>>

\* All 5 calls are answered: the snapshot is handed to every waiter.
Complete(f) ==
    /\ f \in fetches
    /\ f.done = NUM_CALLS
    /\ fetches' = fetches \ {f}
    /\ req' = Deliver(f, "ok", f.id)
    /\ UNCHANGED <<now, cache, nextId>>

Tick ==
    /\ now < MaxTime
    /\ now' = now + 1
    /\ UNCHANGED <<cache, fetches, req, nextId>>

----------------------------------------------------------------------------
(* Specifications *)

Init == PipeInit /\ CacheInit

Next ==
    \/ Screen /\ UNCHANGED cacheVars
    \/ AggregateStep /\ UNCHANGED cacheVars

Spec == Init /\ [][Next]_vars

CacheSpecInit == PipeIdle /\ CacheInit

CacheNext ==
    \/ \E r \in Reqs, s \in Symbols : Arrive(r, s) /\ UNCHANGED pipeVars
    \/ \E f \in fetches : CallCached(f) /\ UNCHANGED pipeVars
    \/ \E f \in fetches : CallOk(f) /\ UNCHANGED pipeVars
    \/ \E f \in fetches : CallFail(f) /\ UNCHANGED pipeVars
    \/ \E f \in fetches : Cancel(f) /\ UNCHANGED pipeVars
    \/ \E f \in fetches : Complete(f) /\ UNCHANGED pipeVars
    \/ Tick /\ UNCHANGED pipeVars

CacheSpec == CacheSpecInit /\ [][CacheNext]_vars

----------------------------------------------------------------------------
(* Properties of the recommendation pipeline *)

Greens == Count(rec.checks, "GREEN")
Yellows == Count(rec.checks, "YELLOW")
Reds == Count(rec.checks, "RED")
Present == Cardinality({i \in 1..Len(rec.checks) : rec.checks[i] # ABSENT})
Screened == pc \in {"screened", "done"}

\* C1: with 1 to 5 present checks the signal is SELL exactly when
\* 2*reds >= total, BUY exactly when 2*reds < total and 2*greens >= total,
\* and HOLD in every other case (SELL wins when both thresholds are met).
C1_Signal ==
    (pc = "done" /\ Present \in 1..NUM_CHECKS) =>
        /\ (rec.signal = "SELL") <=> (2 * Reds >= Present)
        /\ (rec.signal = "BUY") <=> (2 * Reds < Present /\ 2 * Greens >= Present)
        /\ (rec.signal = "HOLD") <=> (2 * Reds < Present /\ 2 * Greens < Present)

\* 2 RED and 2 GREEN of 4 present checks: SELL.
C1_Witness ==
    /\ pc = "done"
    /\ Present = 4 /\ Reds = 2 /\ Greens = 2
    /\ rec.signal = "SELL"

\* C2 as stated: confidence follows the count of the most frequent light of
\* all three colours: HIGH when no check differs from it, MEDIUM when one
\* does, LOW otherwise.
C2_AnyColourMajority ==
    (pc = "done" /\ Present \in 1..NUM_CHECKS) =>
        LET differs == Present - Max(Greens, Max(Yellows, Reds))
        IN  rec.confidence = IF differs = 0 THEN "HIGH"
                             ELSE IF differs = 1 THEN "MEDIUM"
                             ELSE "LOW"

\* C2 amended: the majority is the more frequent of GREEN and RED, never
\* YELLOW, and differs = total - count(majority).  Confidence is HIGH when
\* differs = 0 (every check that ran is GREEN, or every one is RED), MEDIUM
\* when differs = 1 and LOW otherwise.
C2_Confidence ==
    (pc = "done" /\ Present \in 1..NUM_CHECKS) =>
        LET differs == Present - Max(Greens, Reds)
        IN  rec.confidence = IF differs = 0 THEN "HIGH"
                             ELSE IF differs = 1 THEN "MEDIUM"
                             ELSE "LOW"

\* 4 GREEN and 1 YELLOW: BUY with MEDIUM confidence.
C2_Witness ==
    /\ pc = "done"
    /\ Greens = 4 /\ Yellows = 1 /\ Reds = 0
    /\ rec.signal = "BUY" /\ rec.confidence = "MEDIUM"

GoldenInput ==
    /\ metrics.gm = Some(4733) /\ metrics.pm = Some(2704)
    /\ metrics.ps = Some(891) /\ metrics.growth = Some(1007)
    /\ Defined(metrics.fcf)
    /\ metrics.ratio = Some(61)
    /\ Defined(metrics.price) /\ Defined(metrics.sma50)
    /\ Val(metrics.price) < Val(metrics.sma50)
    /\ metrics.rsi = Some(4890)

\* C3: the documented AAPL scenario yields the checks
\* [YELLOW, GREEN, YELLOW, YELLOW, YELLOW], total 5, 1 green, 0 reds, and
\* the recommendation HOLD with LOW confidence.
C3_Golden ==
    (pc = "done" /\ GoldenInput) =>
        /\ rec.checks = <<"YELLOW", "GREEN", "YELLOW", "YELLOW", "YELLOW">>
        /\ rec.total = 5 /\ rec.greens = 1 /\ rec.reds = 0
        /\ rec.signal = "HOLD" /\ rec.confidence = "LOW"

C3_Witness ==
    /\ pc = "done" /\ GoldenInput
    /\ metrics.fcf = Some(3122) /\ metrics.sma50 = Some(26674)
    /\ rec.signal = "HOLD"

\* C4: when all five checks are absent the recommendation is HOLD with LOW
\* confidence, never SELL or BUY.
C4_NoChecksHoldLow ==
    (pc = "done" /\ \A i \in 1..NUM_CHECKS : rec.checks[i] = ABSENT) =>
        (rec.signal = "HOLD" /\ rec.confidence = "LOW")

C7_SkipRule ==
    pc = "done" =>
        /\ Len(rec.checks) = NUM_CHECKS
        /\ rec.checks = checks
        /\ (~Defined(metrics.gm) \/ ~Defined(metrics.pm))
              => rec.checks[1] = ABSENT
        /\ (~Defined(metrics.ps) \/ ~Defined(metrics.growth)
              \/ ~Defined(metrics.fcf)) => rec.checks[2] = ABSENT
        /\ ~Defined(metrics.growth) => rec.checks[3] = ABSENT
        /\ ~Defined(metrics.ratio) => rec.checks[4] = ABSENT
        /\ (~Defined(metrics.price) \/ ~Defined(metrics.sma50)
              \/ ~Defined(metrics.rsi)) => rec.checks[5] = ABSENT
        /\ rec.total = Present
        /\ rec.total = NUM_CHECKS
              - Cardinality({i \in 1..NUM_CHECKS : rec.checks[i] = ABSENT})

\* Growth undefined, everything else defined: checks 2 and 3 are skipped,
\* the other three are counted.
C7_Witness ==
    /\ pc = "done"
    /\ ~Defined(metrics.growth)
    /\ rec.checks[2] = ABSENT /\ rec.checks[3] = ABSENT
    /\ rec.checks[1] \in Lights /\ rec.checks[4] \in Lights
    /\ rec.checks[5] \in Lights
    /\ rec.total = 3

AllDefined ==
    /\ Defined(metrics.gm) /\ Defined(metrics.pm) /\ Defined(metrics.ps)
    /\ Defined(metrics.growth) /\ Defined(metrics.fcf)
    /\ Defined(metrics.ratio) /\ Defined(metrics.price)
    /\ Defined(metrics.sma50) /\ Defined(metrics.rsi)

\* C10: at the exact threshold values the light is that of the earlier
\* rule: gross margin 50 GREEN, gross margin 30 with profit margin > 10
\* YELLOW, P/S 10 GREEN, P/S 20 RED, growth 20 GREEN, growth 10 YELLOW,
\* cash/debt 1.0 GREEN, cash/debt 0.5 YELLOW, price below SMA50 with RSI 30
\* YELLOW, price above SMA50 with RSI 30 or 70 GREEN.
C10_Boundaries ==
    (Screened /\ AllDefined) =>
        /\ Val(metrics.gm) = 5000 => checks[1] = "GREEN"
        /\ (Val(metrics.gm) = 3000 /\ Val(metrics.pm) > 1000)
              => checks[1] = "YELLOW"
        /\ Val(metrics.ps) = 1000 => checks[2] = "GREEN"
        /\ Val(metrics.ps) = 2000 => checks[2] = "RED"
        /\ Val(metrics.growth) = 2000 => checks[3] = "GREEN"
        /\ Val(metrics.growth) = 1000 => checks[3] = "YELLOW"
        /\ Val(metrics.ratio) = 100 => checks[4] = "GREEN"
        /\ Val(metrics.ratio) = 50 => checks[4] = "YELLOW"
        /\ (Val(metrics.price) < Val(metrics.sma50) /\ Val(metrics.rsi) = 3000)
              => checks[5] = "YELLOW"
        /\ (Val(metrics.price) > Val(metrics.sma50)
              /\ Val(metrics.rsi) \in {3000, 7000}) => checks[5] = "GREEN"

\* Gross margin 30 with profit margin 27.04 and cash/debt 0.5: both YELLOW.
C10_Witness ==
    /\ Screened /\ AllDefined
    /\ metrics.gm = Some(3000) /\ metrics.pm = Some(2704)
    /\ metrics.ratio = Some(50)
    /\ metrics.ps = Some(1000)
    /\ metrics.rsi = Some(3000) /\ Val(metrics.price) < Val(metrics.sma50)
    /\ checks[1] = "YELLOW" /\ checks[4] = "YELLOW"
    /\ checks[2] = "GREEN" /\ checks[5] = "YELLOW"

----------------------------------------------------------------------------
(* Properties of the cache *)

Finished(r) == req[r].st \in {"ok", "failed"}

SingleFlight ==
    \A f, g \in fetches : f.sym = g.sym => f = g

SameOutcome ==
    \A r1, r2 \in Reqs :
        (Finished(r1) /\ Finished(r2) /\ req[r1].fetch = req[r2].fetch)
            => (req[r1].st = req[r2].st /\ req[r1].result = req[r2].result)

NoSecondFetch ==
    \A s \in Symbols :
        (InFlight(s) \/ Valid(s)) =>
            \A g \in fetches' : g.sym = s => \E f \in fetches : f.id = g.id

CacheComplete ==
    \A s \in Symbols :
        (~InFlight(s) /\ \E k \in Calls : Defined(cache[s][k]))
            => \A k \in Calls : Defined(cache[s][k])

FailureSurfaced ==
    \A r \in Reqs : req[r].st = "failed" => req[r].result = 0

Ended(f) == \A g \in fetches' : g.id # f.id

FetchEnds ==
    \A f \in fetches :
        Ended(f) =>
            /\ cache' = cache
            /\ \/ \A r \in Waiters(f) : req'[r].st = "failed"
               \/ /\ f.done = NUM_CALLS
                  /\ \A r \in Waiters(f) : req'[r].st = "ok"

\* C9: a fetch that fails, times out or is cancelled leaves the cache
\* unchanged and its waiters get an upstream failure; every cache entry
\* holds a complete snapshot built from five successful calls.
C9_FailureCachesNothing ==
    [](CacheComplete /\ FailureSurfaced) /\ [][FetchEnds]_vars

----------------------------------------------------------------------------
(* Exhaustiveness of the rule tables *)

\* C11: each check's rule list is exhaustive: whenever all the metrics a
\* check depends on are defined, the check returns exactly one light of
\* GREEN, YELLOW, RED; no combination of defined inputs falls through every
\* rule (for check 5 also price > sma50 with rsi < 30 and price = sma50, for
\* check 1 also a gross margin of 30 to 50 with a profit margin <= 10).
C11_Exhaustive ==
    Screened =>
        /\ (Defined(metrics.gm) /\ Defined(metrics.pm)) => checks[1] \in Lights
        /\ (Defined(metrics.ps) /\ Defined(metrics.growth)
              /\ Defined(metrics.fcf)) => checks[2] \in Lights
        /\ Defined(metrics.growth) => checks[3] \in Lights
        /\ Defined(metrics.ratio) => checks[4] \in Lights
        /\ (Defined(metrics.price) /\ Defined(metrics.sma50)
              /\ Defined(metrics.rsi)) => checks[5] \in Lights

====
